---- MODULE Spec2Model ----
(***************************************************************************)
(* ngxtop (RTMP/HLS fork): the tailing / parsing / aggregation / timed     *)
(* reporting loop of src/ngxtop, as a state machine.                      *)
(*                                                                         *)
(* The main thread runs NginxTop.run: setup_reporter, then                 *)
(* NginxHttpInfo.parse_info, whose chained generators pull one line at a   *)
(* time through follow / parse_log into DictProcessor.process.  In follow  *)
(* mode the SIGALRM handler NginxTop.print_report runs in the same thread  *)
(* between two bytecodes of the main flow: it is the action print_report,  *)
(* enabled at every position of the main flow, also in the middle of       *)
(* StreamInfo.parse_info.                                                  *)
(*                                                                         *)
(* Modelling choices:                                                      *)
(*  - a log line is the mapping from the placeholders of the log format    *)
(*    to the raw texts it carries, or a line the pattern does not match;   *)
(*  - time_local is carried as the epoch second it denotes;                *)
(*  - out_bw is kept multiplied by 1024 (the code divides by 1024.0 last); *)
(*  - the run has no --rtmp-stat-url (print_report skips rtmp_top), no     *)
(*    --filter and no --pre-filter (SpecOptions has them);                 *)
(*  - appends to the watched file are whole lines;                         *)
(*  - a report is the figures DictProcessor.report formats, unscaled;      *)
(*  - the handler runs before the timer fires again.                       *)
(***************************************************************************)
EXTENDS Integers, Sequences, FiniteSets, TLC

\* Bounds of the model.
MaxLines == 2
MaxTime == 2
MaxRenders == 2

\* time.time() when the run starts, in whole seconds since the epoch.
Epoch == 1000

\* ------------------------------------------------------------------ input

Clients == {"10.0.0.1", "10.0.0.2"}

Requests ==
    { "GET /live/a.m3u8 HTTP/1.1",
      "GET /index.html HTTP/1.1" }

\* The placeholders of the built-in format "combined".
LOG_FORMAT_COMBINED ==
    { "remote_addr", "remote_user", "time_local", "request", "status",
      "body_bytes_sent", "http_referer", "http_user_agent" }

\* A literal --log-format without $request.
LOG_FORMAT_NO_REQUEST ==
    { "remote_addr", "time_local", "status", "body_bytes_sent" }

Formats == { LOG_FORMAT_COMBINED, LOG_FORMAT_NO_REQUEST }

\* The logging_samples values a run starts with (--samples).
SampleChoices == { 1, 2 }

\* The values a matching line written at time t carries.
GoodVals(format, t, req, cl) ==
    [ f \in format |->
        CASE f = "remote_addr"     -> cl
          [] f = "time_local"      -> t
          [] f = "request"         -> req
          [] f = "status"          -> "200"
          [] f = "body_bytes_sent" -> "1"
          [] f = "http_user_agent" -> "UA"
          [] OTHER                 -> "-" ]

GoodLines(format, t) ==
    { [matches |-> TRUE, vals |-> GoodVals(format, t, r, c)] :
        r \in Requests, c \in Clients }

\* A line that matches the pattern with a non-numeric status text.
BadStatusLine(format, t) ==
    [ matches |-> TRUE,
      vals |-> [ GoodVals(format, t, "GET /live/a.m3u8 HTTP/1.1", "10.0.0.1")
                   EXCEPT !["status"] = "abc" ] ]

\* A line the pattern does not match.
NoMatchLine == [matches |-> FALSE, vals |-> [raw |-> "garbage"]]

LinesAt(format, t) ==
    GoodLines(format, t) \cup { BadStatusLine(format, t), NoMatchLine }

RECURSIVE FilesOf(_, _)
FilesOf(format, n) ==
    IF n = 0 THEN { <<>> }
    ELSE LET shorter == FilesOf(format, n - 1)
         IN  shorter \cup
             { Append(f, l) : f \in { g \in shorter : Len(g) = n - 1 },
                              l \in LinesAt(format, Epoch) }

\* follow never reads what the file holds when it seeks to the end, so one
\* line stands for every line written before that.
OldLine(format) ==
    [ matches |-> TRUE,
      vals |-> GoodVals(format, Epoch, "GET /index.html HTTP/1.1", "10.0.0.2") ]

OldFiles(format, n) ==
    { f \in FilesOf(format, n) : \A i \in 1..Len(f) : f[i] = OldLine(format) }

\* ------------------------------------------------------------- utils.py

\* Python's None where a field value is expected (no raw text of the model
\* equals it).
None == "None"

\* The integer a numeric text denotes.
IntOf ==
    ("0" :> 0) @@ ("1" :> 1) @@ ("2" :> 2) @@ ("200" :> 200) @@ ("404" :> 404)

\* int(value) raises ValueError: value is truthy, not '-', and not numeric.
to_int_raises(value) ==
    value \notin { None, "", "-" } /\ value \notin DOMAIN IntOf

to_int(value) ==
    IF value \in { None, "", "-" } THEN 0 ELSE IntOf[value]

\* to_int on a value that is an integer already.
to_int_num(value) ==
    IF value # 0 THEN value ELSE 0

\* float(value), for the integral texts of the model.
to_float(value) ==
    IF value \in { None, "", "-" } THEN 0 ELSE IntOf[value]

\* ----------------------------------------------------------- httptop.py

\* What one stage of the generator chain hands on for one item:
\* the item, nothing (the item was dropped), or an exception.
Item(r) == [st |-> "item", item |-> r]
Dropped == [st |-> "dropped", item |-> <<>>]
Raised(e) == [st |-> e, item |-> <<>>]

Get(item, field) == IF field \in DOMAIN item THEN item[field] ELSE None

\* Mutant of Match: m.groupdict() without the test of m.
Match_unguarded(l) ==
    IF l.matches THEN Item(l.vals) ELSE Raised("AttributeError")

\* pattern.match(l), then m.groupdict() when m is not None.
Match(l) == IF l.matches THEN Item(l.vals) ELSE Dropped

PathOf(request) ==
    CASE request = "GET /live/a.m3u8 HTTP/1.1" -> "/live/a.m3u8"
      [] request = "GET /index.html HTTP/1.1"  -> "/index.html"
      [] OTHER                                 -> None

parse_request_path(record) ==
    IF "request_uri" \in DOMAIN record THEN record["request_uri"]
    ELSE IF "request" \in DOMAIN record THEN PathOf(record["request"])
    ELSE None

parse_status_type(record) ==
    IF "status" \in DOMAIN record THEN record["status"] \div 100 ELSE None

\* The functions parse_log hands to map_field and add_field, by name;
\* "body_bytes_sent" is lambda r: r['body_bytes_sent'].
Call(func, arg) ==
    CASE func = "to_int"             -> to_int(arg)
      [] func = "to_float"           -> to_float(arg)
      [] func = "parse_status_type"  -> parse_status_type(arg)
      [] func = "parse_request_path" -> parse_request_path(arg)
      [] func = "body_bytes_sent"    -> arg["body_bytes_sent"]

\* func(arg) raises ValueError.
ValueErrorOf(func, arg) ==
    func \in { "to_int", "to_float" } /\ to_int_raises(arg)

\* func(arg) raises KeyError.
KeyErrorOf(func, arg) ==
    func = "body_bytes_sent" /\ "body_bytes_sent" \notin DOMAIN arg

\* map_field: item[field] = func(item.get(field, None)); yield item;
\* except ValueError: pass.
map_field(field, func, x) ==
    IF x.st # "item" THEN x
    ELSE IF ValueErrorOf(func, Get(x.item, field)) THEN Dropped
    ELSE Item((field :> Call(func, Get(x.item, field))) @@ x.item)

\* add_field: if field not in item: item[field] = func(item); yield item.
add_field(field, func, x) ==
    IF x.st # "item" THEN x
    ELSE IF field \in DOMAIN x.item THEN x
    ELSE IF KeyErrorOf(func, x.item) THEN Raised("KeyError")
    ELSE Item((field :> Call(func, x.item)) @@ x.item)

\* Mutant of parse_log: a status int() rejects is stored as 0 and the item
\* is yielded.
parse_log_status_default(l) ==
    LET matched == Match(l)
        r1 == IF matched.st = "item"
                 /\ ValueErrorOf("to_int", Get(matched.item, "status"))
              THEN Item(("status" :> 0) @@ matched.item)
              ELSE map_field("status", "to_int", matched)
        r2 == add_field("status_type", "parse_status_type", r1)
        r3 == add_field("bytes_sent", "body_bytes_sent", r2)
        r4 == map_field("bytes_sent", "to_int", r3)
        r5 == map_field("request_time", "to_float", r4)
        r6 == add_field("request_path", "parse_request_path", r5)
    IN  r6

\* parse_log, for the one line the chain is pulling.
parse_log(l) ==
    LET matched == Match(l)
        r1 == map_field("status", "to_int", matched)
        r2 == add_field("status_type", "parse_status_type", r1)
        r3 == add_field("bytes_sent", "body_bytes_sent", r2)
        r4 == map_field("bytes_sent", "to_int", r3)
        r5 == map_field("request_time", "to_float", r4)
        r6 == add_field("request_path", "parse_request_path", r5)
    IN  r6

\* ---------------------------------------------------- dict_processor.py

\* The stream captured by the first of self.patterns that matches the
\* request (GET /live/$stream.m3u8 HTTP/1.1, GET /live/$stream-$frag.ts
\* HTTP/1.1); the request itself when none matches.
StreamKey(request) ==
    CASE request = "GET /live/a.m3u8 HTTP/1.1" -> "a"
      [] OTHER                                 -> request

\* ClientInfo.__init__; join_ts is None while joined is FALSE.
ClientInfo ==
    [join_ts |-> 0, joined |-> FALSE, status |-> None, detail |-> ""]

\* ClientInfo.parse_info.
Client_parse_info(self, records, clock) ==
    LET joined ==
            IF self.joined THEN self.join_ts
            ELSE IF "time" \in DOMAIN records
                 THEN clock - to_int(records["time"]) * 1000
            ELSE IF "time_local" \in DOMAIN records
                 THEN records["time_local"]
            ELSE clock
        status ==
            IF "status" \in DOMAIN records
            THEN to_int_num(records["status"]) ELSE self.status
        detail ==
            IF "http_user_agent" \in DOMAIN records
            THEN records["http_user_agent"] ELSE self.detail
    IN  [ join_ts |-> joined, joined |-> TRUE, status |-> status,
          detail |-> detail ]

\* StreamInfo.__init__.
StreamInfo ==
    [ in_bytes |-> 0, in_bw |-> 0, out_bytes |-> 0, out_bw |-> 0,
      start_ts |-> 0, clients |-> <<>> ]

\* Mutant of PI_clients: the client map is replaced, not extended.
PI_clients_overwrite(self, records, clock) ==
    [ self EXCEPT !.clients =
        (records["remote_addr"] :>
            Client_parse_info(ClientInfo, records, clock)) ]

\* StreamInfo.parse_info, lines 69-77: the client map.
PI_clients(self, records, clock) ==
    LET client == records["remote_addr"]
        before == IF client \in DOMAIN self.clients
                  THEN self.clients[client] ELSE ClientInfo
    IN  [ self EXCEPT !.clients =
            (client :> Client_parse_info(before, records, clock)) @@ @ ]

\* StreamInfo.parse_info, lines 79-80: start_ts.
PI_start_ts(self, records) ==
    LET join_ts == self.clients[records["remote_addr"]].join_ts
    IN  IF self.start_ts = 0 \/ self.start_ts > join_ts
        THEN [self EXCEPT !.start_ts = join_ts]
        ELSE self

\* StreamInfo.parse_info, line 82.
PI_duration(self, records, clock) ==
    clock - self.clients[records["remote_addr"]].join_ts

\* Line 93 reads records['body_bytes_sent'] under 'bytes_sent' in records.
PI_bytes_raises(records) ==
    /\ "out_bytes" \notin DOMAIN records
    /\ "bytes_sent" \in DOMAIN records
    /\ "body_bytes_sent" \notin DOMAIN records

\* StreamInfo.parse_info, lines 84-93: the byte counters.
PI_bytes(self, records) ==
    LET s1 == IF "in_bytes" \in DOMAIN records
              THEN [self EXCEPT !.in_bytes = @ + to_int(records["in_bytes"])]
              ELSE self
        s2 == IF "in_bw" \in DOMAIN records
              THEN [s1 EXCEPT !.in_bw = to_int(records["in_bw"])]
              ELSE s1
    IN  IF "out_bytes" \in DOMAIN records
        THEN [s2 EXCEPT !.out_bytes = @ + to_int(records["out_bytes"])]
        ELSE IF "bytes_sent" \in DOMAIN records
        THEN [s2 EXCEPT !.out_bytes = @ + to_int(records["body_bytes_sent"])]
        ELSE s2

\* Mutant of PI_out_bw: no time elapsed gives the bandwidth 0.
PI_out_bw_zero(self, records, duration) ==
    IF "out_bw" \in DOMAIN records
    THEN [self EXCEPT !.out_bw = to_int(records["out_bw"]) * 1024]
    ELSE IF duration > 0
    THEN [self EXCEPT !.out_bw = (self.out_bytes \div duration) * 1000]
    ELSE [self EXCEPT !.out_bw = 0]

\* StreamInfo.parse_info, lines 95-101: out_bw, kept multiplied by 1024.
PI_out_bw(self, records, duration) ==
    IF "out_bw" \in DOMAIN records
    THEN [self EXCEPT !.out_bw = to_int(records["out_bw"]) * 1024]
    ELSE IF duration > 0
    THEN [self EXCEPT !.out_bw = (self.out_bytes \div duration) * 1000]
    ELSE [self EXCEPT !.out_bw = self.out_bytes]

\* StreamInfo.parse_info run from its first line to its last.
Stream_parse_info(self, records, clock) ==
    IF "remote_addr" \notin DOMAIN records THEN self
    ELSE LET s1 == PI_clients(self, records, clock)
             s2 == PI_start_ts(s1, records)
             s3 == PI_bytes(s2, records)
         IN  PI_out_bw(s3, records, PI_duration(s2, records, clock))

\* The sum of f over a finite set.
RECURSIVE SumOver(_, _)
SumOver(S, f) ==
    IF S = {} THEN 0
    ELSE LET x == CHOOSE y \in S : TRUE
         IN  f[x] + SumOver(S \ {x}, f)

\* The orders in which itervalues() may visit a dict with these keys.
Orders(S) ==
    { o \in [1..Cardinality(S) -> S] :
        \A i, j \in 1..Cardinality(S) : o[i] = o[j] => i = j }

\* DictProcessor.report, lines 156-159, over the streams visited so far.
RECURSIVE RunTimeAfter(_, _, _)
RunTimeAfter(order, stream_map, n) ==
    IF n = 0 THEN 0
    ELSE LET run_time == RunTimeAfter(order, stream_map, n - 1)
             start_ts == stream_map[order[n]].start_ts
         IN  IF run_time # 0
             THEN (IF start_ts < run_time THEN start_ts ELSE run_time)
             ELSE start_ts

\* Mutant of report: the loop over stream.clients is missing.
report_without_clients(stream_map, clock, order) ==
    [ client_cnt |-> 0, out_bytes |-> 0, out_bw |-> 0, run_time |-> 0,
      detail |-> [ k \in DOMAIN stream_map |->
                     [ out_bytes |-> stream_map[k].out_bytes,
                       out_bw |-> stream_map[k].out_bw,
                       time |-> 0,
                       clients |-> << >> ] ] ]

\* DictProcessor.report: the figures of the text it returns.
report(stream_map, clock, order) ==
    LET keys == DOMAIN stream_map
    IN  [ client_cnt |->
              SumOver(keys, [k \in keys |->
                  Cardinality(DOMAIN stream_map[k].clients)]),
          out_bytes |->
              SumOver(keys, [k \in keys |-> stream_map[k].out_bytes]),
          out_bw |->
              SumOver(keys, [k \in keys |-> stream_map[k].out_bw]),
          run_time |->
              (clock - RunTimeAfter(order, stream_map, Len(order))) \div 1000,
          detail |->
              [ k \in keys |->
                  [ out_bytes |-> stream_map[k].out_bytes,
                    out_bw |-> stream_map[k].out_bw,
                    time |-> (clock - stream_map[k].start_ts) \div 1000,
                    clients |->
                        [ c \in DOMAIN stream_map[k].clients |->
                            [ detail |-> stream_map[k].clients[c].detail,
                              time |->
                                (clock - stream_map[k].clients[c].join_ts)
                                    \div 1000 ] ] ] ] ]

\* ------------------------------------------------------------------ state

VARIABLES
    no_follow,        \* arguments['--no-follow']
    pre_filter,       \* arguments['--pre-filter']
    filter_exp,       \* arguments['--filter']
    having,           \* arguments['--having']
    format,           \* the placeholders of arguments['--log-format']
    samples_mode,     \* NginxTop.logging_samples is not None
    logging_samples,  \* NginxTop.logging_samples
    file,             \* the lines of the access log, oldest first
    pos,              \* lines of the file that f.readline() has consumed
    pc,               \* where the main flow stands
    line,             \* the line follow() / the file iterator yielded last
    record,           \* the record parse_log handed to process
    duration,         \* the local of StreamInfo.parse_info
    streams,          \* DictProcessor.streams
    begin,            \* DictProcessor.begin; 0 stands for False
    timer,            \* SIGALRM handler and interval timer installed
    clock,            \* time.time(), in whole seconds
    screen,           \* what curses shows
    stdout,           \* the report printed last
    printed,          \* how many reports were printed
    exit_status,
    yielded,          \* history: file indices the line source yielded
    reached,          \* history: file indices whose record entered process
    committed,        \* history: the store after each whole record
    seen,             \* history: the store the last print_report read
    renders,          \* history: how many times print_report ran
    tail_start,       \* history: the length of the file when follow sought
    records,          \* the records of a direct call of DictProcessor.process
    log_format,       \* the argument of a direct call of build_pattern
    values,           \* the value a written line carries for each placeholder
    text,             \* the line pattern.match is given
    pattern,          \* what build_pattern returned
    groupdict,        \* what pattern.match(text) returned
    sql_begin,        \* SQLProcessor.begin
    sql_log,          \* the rows of SQLProcessor's table log
    sql_output,       \* what SQLProcessor.report returned or raised
    request_line,     \* record['request'], as a sequence of characters
    stream_name,      \* the stream process files the record under
    raw_record,       \* the groupdict of the line parse_log is given
    typed_record,     \* what parse_log yields for it
    argv,             \* arguments: --access-log, --log-format, info
    isatty,           \* sys.stdin.isatty()
    nginx_conf,       \* the nginx config file detect_log_config reads
    existing,         \* the paths os.path.exists finds
    access_log,       \* NginxHttpInfo.access_log
    access_log_format \* the log format get_access_log returned to run

arguments ==
    << no_follow, format, samples_mode, pre_filter, filter_exp, having >>
source == << file, pos, line, yielded, tail_start >>
store == << streams, begin, committed >>
sinks == << screen, stdout, printed >>
handler == << logging_samples, seen, renders >>

\* What the program run does not touch: the state of the calls made on
\* its classes and functions directly.
compiler == << log_format, values, text, pattern, groupdict >>

sql == << sql_begin, sql_log, sql_output >>

keying == << request_line, stream_name >>

enrich == << raw_record, typed_record >>

detect ==
    << argv, isatty, nginx_conf, existing, access_log, access_log_format >>

calls == << keying, enrich, detect >>

library == << records, compiler, sql, calls >>

vars ==
    << arguments, source, store, sinks, handler, pc, record, duration, timer,
       clock, exit_status, reached, library >>

NoLine == [matches |-> FALSE, vals |-> [raw |-> ""]]
NoRecord == << >>
Blank == [client_cnt |-> 0, out_bytes |-> 0, out_bw |-> 0, run_time |-> 0,
          detail |-> << >>]

\* The expressions the model gives to --pre-filter and to --filter.
PRE_FILTER == "'live' in line.split('\"')[1]"
FILTER == "request_path.startswith('/live')"

\* The run without --pre-filter and --filter, and with the default --having.
NoOptions ==
    /\ pre_filter = None
    /\ filter_exp = None
    /\ having = "1"

\* A run with any of --pre-filter, --filter and --having 0.
SomeOptions ==
    /\ pre_filter \in { None, PRE_FILTER }
    /\ filter_exp \in { None, FILTER }
    /\ having \in { "1", "0" }

InitProgram ==
    /\ no_follow \in BOOLEAN
    /\ format \in Formats
    /\ samples_mode \in (IF no_follow THEN { FALSE } ELSE BOOLEAN)
    /\ logging_samples \in (IF samples_mode THEN SampleChoices ELSE {0})
    /\ file \in (IF no_follow THEN FilesOf(format, MaxLines)
                 ELSE OldFiles(format, MaxLines))
    /\ pos = 0
    /\ pc = "run"
    /\ line = NoLine
    /\ record = NoRecord
    /\ duration = 0
    /\ streams = << >>
    /\ begin = 0
    /\ timer = FALSE
    /\ clock = Epoch
    /\ screen = Blank
    /\ stdout = Blank
    /\ printed = 0
    /\ exit_status = "running"
    /\ yielded = << >>
    /\ reached = << >>
    /\ committed = << << >> >>
    /\ seen = << >>
    /\ renders = 0
    /\ tail_start = 0

\* Nothing is compiled or matched outside the run.
NoPattern == [st |-> "None", elems |-> << >>]
NoMatch == [st |-> "None", groups |-> << >>]

\* SQLProcessor.__init__: begin is False (written 0, which report's
\* `not self.begin` takes the same way), the table is empty.
NoCall == [st |-> "None"]

NoSQL ==
    /\ sql_begin = 0
    /\ sql_log = << >>
    /\ sql_output = NoCall

NoKeying ==
    /\ request_line = << >>
    /\ stream_name = << >>

NoEnrich ==
    /\ raw_record = << >>
    /\ typed_record = Dropped

\* No format: the value of a format that was not resolved.
NoFormat == [name |-> "None", tokens |-> << >>]

\* No config file at the path: os.path.exists(config) is false.
NoConfig == [st |-> "missing", access_logs |-> << >>, log_formats |-> << >>]

\* NginxHttpInfo.__init__: access_log is None; the command line has the
\* defaults of the usage text.
NoDetect ==
    /\ argv = [ access_log |-> None,
                log_format |-> [name |-> "combined", tokens |-> << >>],
                info |-> FALSE ]
    /\ isatty = TRUE
    /\ nginx_conf = NoConfig
    /\ existing = {}
    /\ access_log = None
    /\ access_log_format = NoFormat

NoCalls == NoKeying /\ NoEnrich /\ NoDetect

\* No class or function is called directly.
NoDirectCall ==
    /\ NoSQL
    /\ NoCalls
    /\ records = << >>
    /\ log_format = [name |-> "", tokens |-> << >>]
    /\ values = << >>
    /\ text = << >>
    /\ pattern = NoPattern
    /\ groupdict = NoMatch

Init == NoOptions /\ InitProgram /\ NoDirectCall

InitOptions == SomeOptions /\ InitProgram /\ NoDirectCall

Running == pc \notin { "done", "crashed", "interrupted" }

\* ------------------------------------------------------------ environment

\* nginx writes one more line to the watched access log.
AppendLine ==
    /\ ~no_follow
    /\ Running
    /\ Len(file) < MaxLines
    /\ \E l \in (IF pc \in { "run", "parse_info", "seek" }
                THEN { OldLine(format) } ELSE LinesAt(format, clock)) :
          file' = Append(file, l)
    /\ UNCHANGED library
    /\ UNCHANGED << arguments, pos, line, yielded, tail_start, store, sinks,
                    handler, pc, record, duration, timer, clock, exit_status,
                    reached >>

\* A second of wall-clock time passes.
Tick ==
    /\ Running
    /\ clock < Epoch + MaxTime - 1
    /\ clock' = clock + 1
    /\ UNCHANGED library
    /\ UNCHANGED << arguments, source, store, sinks, handler, pc, record,
                    duration, timer, exit_status, reached >>

\* -------------------------------------------------------------- main flow

\* NginxTop.run up to setup_reporter: the handler and the interval timer
\* are installed unless --no-follow.
setup_reporter ==
    /\ pc = "run"
    /\ timer' = ~no_follow
    /\ pc' = "parse_info"
    /\ UNCHANGED library
    /\ UNCHANGED << arguments, source, store, sinks, handler, record,
                    duration, clock, exit_status, reached >>

\* NginxHttpInfo.parse_info: build_source, process_log, and the first line
\* of DictProcessor.process.  With --no-follow the file is open at offset 0;
\* follow() has not run yet.
parse_info ==
    /\ pc = "parse_info"
    /\ begin' = clock
    /\ pos' = 0
    /\ pc' = IF no_follow THEN "readline" ELSE "seek"
    /\ UNCHANGED library
    /\ UNCHANGED << arguments, file, line, yielded, tail_start, streams,
                    committed, sinks, handler, record, duration, timer, clock,
                    exit_status, reached >>

\* Mutant of SeekEnd: the file is read from its start (no seek to eof).
SeekStart(f) == 0

\* f.seek(0, 2): the offset of the end of the file.
SeekEnd(f) == Len(f)

\* follow, lines 115-116: open the file and seek to its end.
follow_seek ==
    /\ pc = "seek"
    /\ pos' = SeekEnd(file)
    /\ tail_start' = Len(file)
    /\ pc' = "readline"
    /\ UNCHANGED library
    /\ UNCHANGED << arguments, file, line, yielded, store, sinks, handler,
                    record, duration, timer, clock, exit_status, reached >>

\* Mutant of NextPos: the offset stays before the line just read.
NextPos_reread(p) == IF p >= 1 THEN p ELSE p + 1

\* The offset after one f.readline() that found a line.
NextPos(p) == p + 1

\* Mutant of AtEof: follow ends like the file iterator.
AtEof_ends(nf) == "report"

\* Where a read that found no line leads: the file iterator of build_source
\* ends, which ends the loop of DictProcessor.process; follow goes to sleep.
AtEof(nf) == IF nf THEN "report" ELSE "sleep"

\* follow, lines 118-122, or the file iterator of build_source.
readline ==
    /\ pc = "readline"
    /\ IF pos < Len(file)
       THEN /\ pos' = NextPos(pos)
            /\ line' = file[pos']
            /\ yielded' = Append(yielded, pos')
            /\ pc' = "parse_log"
       ELSE /\ pc' = AtEof(no_follow)
            /\ UNCHANGED << pos, line, yielded >>
    /\ UNCHANGED library
    /\ UNCHANGED << arguments, file, tail_start, store, sinks, handler,
                    record, duration, timer, clock, exit_status, reached >>

\* follow, lines 119-121: time.sleep(0.1), then continue.
follow_sleep ==
    /\ pc = "sleep"
    /\ pc' = "readline"
    /\ UNCHANGED library
    /\ UNCHANGED << arguments, source, store, sinks, handler, record,
                    duration, timer, clock, exit_status, reached >>

\* eval(pre_filer_exp, {}, dict(line=line)) for PRE_FILTER: the text between
\* the first two double quotes is the request of a line in the format
\* combined; a line without a double quote raises IndexError.
eval_pre_filter(l) ==
    IF l.matches /\ "request" \in DOMAIN l.vals
    THEN (IF l.vals["request"] = "GET /live/a.m3u8 HTTP/1.1"
          THEN "True" ELSE "False")
    ELSE "IndexError"

\* eval(filter_exp, {}, r) for FILTER: request_path is None when the record
\* has neither request_uri nor request.
eval_filter(r) ==
    IF r["request_path"] = None THEN "AttributeError"
    ELSE IF r["request_path"] = "/live/a.m3u8" THEN "True"
    ELSE "False"

\* The generators process_log chains on the line source, lines 139-146, for
\* the one line pulled: the pre-filter, parse_log, the filter.
process_log_chain(l) ==
    LET pre == IF pre_filter = None THEN "True" ELSE eval_pre_filter(l)
        r == parse_log(l)
        post == IF filter_exp = None THEN "True" ELSE eval_filter(r.item)
    IN  IF pre = "False" THEN Dropped
        ELSE IF pre # "True" THEN Raised(pre)
        ELSE IF r.st # "item" \/ post = "True" THEN r
        ELSE IF post = "False" THEN Dropped
        ELSE Raised(post)

\* The generators of process_log and parse_log on the line just yielded.
parse_log_step ==
    /\ pc = "parse_log"
    /\ LET r == process_log_chain(line)
       IN  CASE r.st = "item" ->
                  /\ record' = r.item
                  /\ pc' = "process"
                  /\ UNCHANGED exit_status
             [] r.st = "dropped" ->
                  /\ pc' = "readline"
                  /\ UNCHANGED << record, exit_status >>
             [] OTHER ->
                  /\ pc' = "crashed"
                  /\ exit_status' = r.st
                  /\ UNCHANGED record
    /\ line' = NoLine
    /\ UNCHANGED library
    /\ UNCHANGED << arguments, file, pos, yielded, tail_start, store, sinks,
                    handler, duration, timer, clock, reached >>

\* DictProcessor.process, lines 125-145, for the record just pulled.  A
\* record without 'request' returns from process.  The StreamInfo of a new
\* stream is filled before it is stored (lines 141-143); that of a known
\* stream is updated in place (line 145), here up to line 77.
process ==
    /\ pc = "process"
    /\ reached' = Append(reached, pos)
    /\ IF "request" \notin DOMAIN record
       THEN /\ pc' = "report"
            /\ UNCHANGED << streams, committed, exit_status >>
       ELSE LET stream == StreamKey(record["request"])
            IN  IF stream \notin DOMAIN streams
                THEN IF "remote_addr" \in DOMAIN record
                        /\ PI_bytes_raises(record)
                     THEN /\ pc' = "crashed"
                          /\ exit_status' = "KeyError"
                          /\ UNCHANGED << streams, committed >>
                     ELSE /\ streams' =
                                (stream :> Stream_parse_info(StreamInfo,
                                                             record, clock))
                                    @@ streams
                          /\ committed' = Append(committed, streams')
                          /\ pc' = "readline"
                          /\ UNCHANGED exit_status
                ELSE IF "remote_addr" \notin DOMAIN record
                     THEN /\ committed' = Append(committed, streams)
                          /\ pc' = "readline"
                          /\ UNCHANGED << streams, exit_status >>
                     ELSE /\ streams' =
                                [ streams EXCEPT
                                    ![stream] = PI_clients(@, record, clock) ]
                          /\ pc' = "pi_start_ts"
                          /\ UNCHANGED << committed, exit_status >>
    /\ record' = IF pc' = "pi_start_ts" THEN record ELSE NoRecord
    /\ UNCHANGED library
    /\ UNCHANGED << arguments, source, begin, sinks, handler, duration, timer,
                    clock >>

\* StreamInfo.parse_info of a known stream, lines 79-82.
pi_start_ts ==
    /\ pc = "pi_start_ts"
    /\ LET stream == StreamKey(record["request"])
       IN  /\ streams' = [ streams EXCEPT
                             ![stream] = PI_start_ts(@, record) ]
           /\ duration' = PI_duration(streams[stream], record, clock)
    /\ pc' = "pi_bytes"
    /\ UNCHANGED library
    /\ UNCHANGED << arguments, source, begin, committed, sinks, handler,
                    record, timer, clock, exit_status, reached >>

\* StreamInfo.parse_info of a known stream, lines 84-93.
pi_bytes ==
    /\ pc = "pi_bytes"
    /\ IF PI_bytes_raises(record)
       THEN /\ pc' = "crashed"
            /\ exit_status' = "KeyError"
            /\ UNCHANGED streams
       ELSE /\ streams' =
                [ streams EXCEPT
                    ![StreamKey(record["request"])] = PI_bytes(@, record) ]
            /\ pc' = "pi_out_bw"
            /\ UNCHANGED exit_status
    /\ UNCHANGED library
    /\ UNCHANGED << arguments, source, begin, committed, sinks, handler,
                    record, duration, timer, clock, reached >>

\* StreamInfo.parse_info of a known stream, lines 95-101; the record is
\* then wholly applied.
pi_out_bw ==
    /\ pc = "pi_out_bw"
    /\ streams' =
         [ streams EXCEPT
             ![StreamKey(record["request"])] = PI_out_bw(@, record, duration) ]
    /\ committed' = Append(committed, streams')
    /\ duration' = 0
    /\ record' = NoRecord
    /\ pc' = "readline"
    /\ UNCHANGED library
    /\ UNCHANGED << arguments, source, begin, sinks, handler, timer, clock,
                    exit_status, reached >>

\* process_log, line 149: print(self.processor.report()) once process has
\* returned; parse_info and run return and the program ends.
process_log_report ==
    /\ pc = "report"
    /\ \E order \in Orders(DOMAIN streams) :
          stdout' = report(streams, clock, order)
    /\ printed' = printed + 1
    /\ pc' = "done"
    /\ exit_status' = "0"
    /\ UNCHANGED library
    /\ UNCHANGED << arguments, source, store, screen, handler, record,
                    duration, timer, clock, reached >>

\* ------------------------------------------------------- SIGALRM handler

\* Mutant of Snapshot: the handler reads the store as it was at the start.
Snapshot_stale == committed[1]

\* The store print_report reads: self.sql_processor.report().
Snapshot == streams

\* Mutant of print_report: nothing is rendered when the store is as the
\* render before read it.
print_report_if_changed ==
    /\ timer
    /\ Running
    /\ renders < MaxRenders
    /\ seen' = Snapshot
    /\ renders' = renders + 1
    /\ IF renders > 0 /\ seen = Snapshot
       THEN UNCHANGED << screen, stdout, printed, logging_samples, pc,
                         exit_status >>
       ELSE \E order \in Orders(DOMAIN Snapshot) :
              LET output == report(Snapshot, clock, order)
              IN  IF ~samples_mode
                  THEN /\ screen' = output
                       /\ UNCHANGED << stdout, printed, logging_samples, pc,
                                       exit_status >>
                  ELSE /\ stdout' = output
                       /\ printed' = printed + 1
                       /\ logging_samples' = logging_samples - 1
                       /\ IF logging_samples' = 0
                          THEN pc' = "done" /\ exit_status' = "0"
                          ELSE UNCHANGED << pc, exit_status >>
                       /\ UNCHANGED screen
    /\ UNCHANGED library
    /\ UNCHANGED << arguments, source, store, record, duration, timer, clock,
                    reached >>

\* Mutant of print_report: the store is emptied once it was rendered.
print_report_reset ==
    /\ timer
    /\ Running
    /\ renders < MaxRenders
    /\ seen' = Snapshot
    /\ renders' = renders + 1
    /\ \E order \in Orders(DOMAIN Snapshot) :
          LET output == report(Snapshot, clock, order)
          IN  IF ~samples_mode
              THEN /\ screen' = output
                   /\ UNCHANGED << stdout, printed, logging_samples, pc,
                                   exit_status >>
              ELSE /\ stdout' = output
                   /\ printed' = printed + 1
                   /\ logging_samples' = logging_samples - 1
                   /\ IF logging_samples' = 0
                      THEN pc' = "done" /\ exit_status' = "0"
                      ELSE UNCHANGED << pc, exit_status >>
                   /\ UNCHANGED screen
    /\ streams' = << >>
    /\ UNCHANGED library
    /\ UNCHANGED << arguments, source, begin, committed, record, duration,
                    timer, clock, reached >>

\* NginxTop.print_report, run by the interval timer between two steps of
\* the main flow.
print_report ==
    /\ timer
    /\ Running
    /\ renders < MaxRenders
    /\ seen' = Snapshot
    /\ renders' = renders + 1
    /\ \E order \in Orders(DOMAIN Snapshot) :
          LET output == report(Snapshot, clock, order)
          IN  IF ~samples_mode
              THEN /\ screen' = output
                   /\ UNCHANGED << stdout, printed, logging_samples, pc,
                                   exit_status >>
              ELSE /\ stdout' = output
                   /\ printed' = printed + 1
                   /\ logging_samples' = logging_samples - 1
                   /\ IF logging_samples' = 0
                      THEN pc' = "done" /\ exit_status' = "0"
                      ELSE UNCHANGED << pc, exit_status >>
                   /\ UNCHANGED screen
    /\ UNCHANGED library
    /\ UNCHANGED << arguments, source, store, record, duration, timer, clock,
                    reached >>

\* Mutant of interrupt: main has no except KeyboardInterrupt.
interrupt_uncaught ==
    /\ Running
    /\ pc' = "interrupted"
    /\ exit_status' = "KeyboardInterrupt"
    /\ UNCHANGED library
    /\ UNCHANGED << arguments, source, store, sinks, handler, record,
                    duration, timer, clock, reached >>

\* SIGINT: KeyboardInterrupt is raised in the main thread, wherever it
\* stands, and main answers with sys.exit(0).  When it is raised inside
\* print_report after the output was shown, that render is the last one.
interrupt ==
    /\ Running
    /\ pc' = "interrupted"
    /\ exit_status' = "0"
    /\ \/ UNCHANGED << sinks, seen, renders >>
       \/ /\ timer
          /\ renders < MaxRenders
          /\ seen' = Snapshot
          /\ renders' = renders + 1
          /\ \E order \in Orders(DOMAIN Snapshot) :
                IF samples_mode
                THEN /\ stdout' = report(Snapshot, clock, order)
                     /\ printed' = printed + 1
                     /\ UNCHANGED screen
                ELSE /\ screen' = report(Snapshot, clock, order)
                     /\ UNCHANGED << stdout, printed >>
    /\ UNCHANGED library
    /\ UNCHANGED << arguments, source, store, logging_samples, record,
                    duration, timer, clock, reached >>

Next ==
    \/ AppendLine
    \/ Tick
    \/ setup_reporter
    \/ parse_info
    \/ follow_seek
    \/ readline
    \/ follow_sleep
    \/ parse_log_step
    \/ process
    \/ pi_start_ts
    \/ pi_bytes
    \/ pi_out_bw
    \/ process_log_report
    \/ print_report

Spec == Init /\ [][Next]_vars

\* The runs with --pre-filter, --filter, --having.
SpecOptions == InitOptions /\ [][Next]_vars

\* The follow-mode runs on the terminal that SIGINT may end.
InitInterrupt == Init /\ ~no_follow /\ ~samples_mode

NextInterrupt == Next \/ interrupt

SpecInterrupt == InitInterrupt /\ [][NextInterrupt]_vars

\* --------------------------------- DictProcessor.process, called directly

\* The program at rest, for the runs that call one class or function
\* directly: nothing is read, tailed, timed or printed.
Idle(position) ==
    /\ no_follow = TRUE
    /\ format = LOG_FORMAT_COMBINED
    /\ samples_mode = FALSE
    /\ logging_samples = 0
    /\ file = << >>
    /\ pos = 0
    /\ pc = position
    /\ line = NoLine
    /\ record = NoRecord
    /\ duration = 0
    /\ streams = << >>
    /\ begin = 0
    /\ timer = FALSE
    /\ clock = Epoch
    /\ screen = Blank
    /\ stdout = Blank
    /\ printed = 0
    /\ exit_status = "running"
    /\ yielded = << >>
    /\ reached = << >>
    /\ committed = << << >> >>
    /\ seen = << >>
    /\ renders = 0
    /\ tail_start = 0

\* Records of other log formats, as parse_log leaves them: with $time and
\* $time_local, with $time alone, with neither, with $out_bytes, with
\* $bytes_sent and no $body_bytes_sent, with $out_bw, without $remote_addr.
OtherRecords ==
    { [ request |-> "GET /live/a.m3u8 HTTP/1.1", remote_addr |-> "10.0.0.1",
        time |-> "0", time_local |-> Epoch - 1 ],
      [ request |-> "GET /live/a.m3u8 HTTP/1.1", remote_addr |-> "10.0.0.2",
        time |-> "1" ],
      [ request |-> "GET /index.html HTTP/1.1", remote_addr |-> "10.0.0.1" ],
      [ request |-> "GET /live/a.m3u8 HTTP/1.1", remote_addr |-> "10.0.0.1",
        time_local |-> Epoch, out_bytes |-> "2", body_bytes_sent |-> "1",
        bytes_sent |-> 1 ],
      [ request |-> "GET /live/a.m3u8 HTTP/1.1", remote_addr |-> "10.0.0.1",
        time_local |-> Epoch, bytes_sent |-> 1 ],
      [ request |-> "GET /live/a.m3u8 HTTP/1.1", remote_addr |-> "10.0.0.2",
        time_local |-> Epoch, out_bw |-> "2", body_bytes_sent |-> "1",
        bytes_sent |-> 1 ],
      [ request |-> "GET /live/a.m3u8 HTTP/1.1", time_local |-> Epoch ] }

\* The records a caller may hand to process: what parse_log makes of the
\* lines of the format combined, the empty record, a record with fields
\* but no 'request', and records of other formats.
DirectRecords ==
    { parse_log(l).item : l \in GoodLines(LOG_FORMAT_COMBINED, Epoch) }
        \cup { << >>, [remote_addr |-> "10.0.0.1", status |-> 200] }
        \cup OtherRecords

RECURSIVE SeqsOf(_, _)
SeqsOf(S, n) ==
    IF n = 0 THEN { << >> }
    ELSE LET shorter == SeqsOf(S, n - 1)
         IN  shorter \cup
             { Append(q, x) : q \in { r \in shorter : Len(r) = n - 1 },
                              x \in S }

InitProcess ==
    /\ NoOptions
    /\ NoSQL
    /\ NoCalls
    /\ Idle("call")
    /\ records \in SeqsOf(DirectRecords, MaxLines)
    /\ log_format = [name |-> "", tokens |-> << >>]
    /\ values = << >>
    /\ text = << >>
    /\ pattern = NoPattern
    /\ groupdict = NoMatch

\* DictProcessor.process, line 122.
call_process ==
    /\ pc = "call"
    /\ begin' = clock
    /\ pc' = "readline"
    /\ UNCHANGED << arguments, source, streams, committed, sinks, handler,
                    record, duration, timer, clock, exit_status, reached,
                    library >>

\* DictProcessor.process, line 124: the for loop takes the next record, or
\* ends and process returns.
for_record ==
    /\ pc = "readline"
    /\ IF pos < Len(records)
       THEN /\ pos' = pos + 1
            /\ record' = records[pos']
            /\ pc' = "process"
       ELSE /\ pc' = "report"
            /\ UNCHANGED << pos, record >>
    /\ UNCHANGED << arguments, file, line, yielded, tail_start, store, sinks,
                    handler, duration, timer, clock, exit_status, reached,
                    library >>

NextProcess ==
    \/ call_process
    \/ for_record
    \/ process
    \/ pi_start_ts
    \/ pi_bytes
    \/ pi_out_bw

SpecProcess == InitProcess /\ [][NextProcess]_vars

\* The same calls while time passes.
NextProcessTimed == NextProcess \/ Tick

SpecProcessTimed == InitProcess /\ [][NextProcessTimed]_vars

\* The same calls, and the report their caller prints once process has
\* returned.
NextReport == NextProcessTimed \/ process_log_report

SpecReport == InitProcess /\ [][NextReport]_vars

\* ------------------------------------------ build_pattern, called directly

\* A format string is a sequence of tokens: one character of literal text,
\* or $name.  A value is a sequence of characters.
Lit(c) == [kind |-> "lit", c |-> c, name |-> ""]
Var(n) == [kind |-> "var", c |-> "", name |-> n]

\* The tokens and the values the model draws from: a plain character, one
\* REGEX_SPECIAL_CHARS lists, one with a meaning in a regular expression
\* that it does not list; values have none of them.
FormatTokens == { Var("a"), Var("b"), Lit(" "), Lit("."), Lit("^") }
ValueChoices == { << >>, << "x" >>, << "y" >> }

\* The longest format string of the model, in tokens.
MaxFormat == 3

\* REGEX_SPECIAL_CHARS, as far as the tokens of the model go.
REGEX_SPECIAL_CHARS == { ".", "*", "+", "?", "|", "(", ")", "{", "}", "[", "]" }

\* LOG_FORMAT_HLS_IN = ''.
LOG_FORMAT_HLS_IN == << >>

\* LOG_FORMAT_COMBINED, as a format string.
LOG_FORMAT_COMBINED_STR ==
    << Var("remote_addr"), Lit(" "), Lit("-"), Lit(" "), Var("remote_user"),
       Lit(" "), Lit("["), Var("time_local"), Lit("]"), Lit(" "),
       Lit("\""), Var("request"), Lit("\""), Lit(" "), Var("status"),
       Lit(" "), Var("body_bytes_sent"), Lit(" "),
       Lit("\""), Var("http_referer"), Lit("\""), Lit(" "),
       Lit("\""), Var("http_user_agent"), Lit("\"") >>

\* build_pattern, lines 178-185; of the names it knows the model draws
\* combined and hls_in.
Expand(fmt) ==
    IF fmt.name = "combined" THEN LOG_FORMAT_COMBINED_STR
    ELSE IF fmt.name = "hls_in" THEN LOG_FORMAT_HLS_IN
    ELSE fmt.tokens

\* re.sub(REGEX_SPECIAL_CHARS, r'\\\1', log_format).
Escape(tokens) ==
    [ i \in 1..Len(tokens) |->
        IF tokens[i].kind = "lit" /\ tokens[i].c \in REGEX_SPECIAL_CHARS
        THEN [ tokens[i] EXCEPT !.kind = "escaped" ]
        ELSE tokens[i] ]

\* re.sub(REGEX_LOG_FORMAT_VARIABLE, '(?P<\\1>.*)', pattern).
Groups(tokens) ==
    [ i \in 1..Len(tokens) |->
        IF tokens[i].kind = "var"
        THEN [ tokens[i] EXCEPT !.kind = "group" ]
        ELSE tokens[i] ]

\* re.compile: a group name used twice is an error; an escaped character
\* stands for itself and so does a plain one, but ^ is left as the anchor
\* of the start of the string.
re_compile(p) ==
    IF \E i, j \in 1..Len(p) :
          i < j /\ p[i].kind = "group" /\ p[j].kind = "group"
                /\ p[i].name = p[j].name
    THEN [st |-> "error", elems |-> << >>]
    ELSE [ st |-> "compiled",
           elems |->
             [ i \in 1..Len(p) |->
                 IF p[i].kind = "lit" /\ p[i].c = "^"
                 THEN [ p[i] EXCEPT !.kind = "bol" ]
                 ELSE IF p[i].kind = "escaped"
                 THEN [ p[i] EXCEPT !.kind = "lit" ]
                 ELSE p[i] ] ]

build_pattern(fmt) == re_compile(Groups(Escape(Expand(fmt))))

\* The match of the elements k.. of a compiled pattern on the line from
\* position i: the groups it captures, with ok false when there is none.
\* A group is (?P<name>.*): it takes the longest run that lets the rest
\* match (TryEnd takes the last of the ends up to j that do).
RECURSIVE MatchFrom(_, _, _, _)
RECURSIVE TryEnd(_, _, _, _, _)
MatchFrom(elems, k, l, i) ==
    IF k > Len(elems) THEN [ok |-> TRUE, groups |-> << >>]
    ELSE CASE elems[k].kind = "lit" ->
                 IF i <= Len(l) /\ l[i] = elems[k].c
                 THEN MatchFrom(elems, k + 1, l, i + 1)
                 ELSE [ok |-> FALSE, groups |-> << >>]
           [] elems[k].kind = "bol" ->
                 IF i = 1 THEN MatchFrom(elems, k + 1, l, i)
                 ELSE [ok |-> FALSE, groups |-> << >>]
           [] elems[k].kind = "group" ->
                 TryEnd(elems, k, l, i, Len(l) + 1)

TryEnd(elems, k, l, i, j) ==
    LET ends == { e \in i..j : MatchFrom(elems, k + 1, l, e).ok }
    IN  IF ends = {} THEN [ok |-> FALSE, groups |-> << >>]
        ELSE LET end == CHOOSE e \in ends : \A f \in ends : f <= e
                 rest == MatchFrom(elems, k + 1, l, end)
             IN  [ ok |-> TRUE,
                   groups |->
                     (elems[k].name :> SubSeq(l, i, end - 1)) @@ rest.groups ]

\* pattern.match(l), then m.groupdict().
pattern_match(pat, l) ==
    LET m == MatchFrom(pat.elems, 1, l, 1)
    IN  IF m.ok THEN [st |-> "match", groups |-> m.groups] ELSE NoMatch

\* The placeholders of a format string.
VarsOf(tokens) ==
    { tokens[i].name : i \in { j \in 1..Len(tokens) : tokens[j].kind = "var" } }

\* The line nginx writes for the format: each placeholder gives its value.
RECURSIVE Written(_, _)
Written(tokens, vals) ==
    IF tokens = << >> THEN << >>
    ELSE (IF Head(tokens).kind = "var" THEN vals[Head(tokens).name]
          ELSE << Head(tokens).c >>) \o Written(Tail(tokens), vals)

\* A call of build_pattern on hls_in or on a literal format string, and
\* the line to match: any line of a value for hls_in, the written line
\* for a format string.
InitPattern ==
    /\ NoOptions
    /\ NoSQL
    /\ NoCalls
    /\ Idle("build_pattern")
    /\ records = << >>
    /\ \/ /\ log_format = [name |-> "hls_in", tokens |-> << >>]
          /\ values = << >>
          /\ text \in ValueChoices
       \/ /\ \E t \in SeqsOf(FormatTokens, MaxFormat) :
                log_format = [name |-> "", tokens |-> t]
          /\ values \in [ VarsOf(log_format.tokens) -> ValueChoices ]
          /\ text = Written(log_format.tokens, values)
    /\ pattern = NoPattern
    /\ groupdict = NoMatch

\* self.pattern = build_pattern(...); re.compile raises on a bad pattern.
build_pattern_step ==
    /\ pc = "build_pattern"
    /\ pattern' = build_pattern(log_format)
    /\ IF pattern'.st = "error"
       THEN pc' = "crashed" /\ exit_status' = "error"
       ELSE pc' = "match" /\ UNCHANGED exit_status
    /\ UNCHANGED << arguments, source, store, sinks, handler, record,
                    duration, timer, clock, reached, records, sql, calls,
                    log_format, values, text, groupdict >>

\* parse_log, line 77: self.pattern.match(l).
match_step ==
    /\ pc = "match"
    /\ groupdict' = pattern_match(pattern, text)
    /\ pc' = "matched"
    /\ UNCHANGED << arguments, source, store, sinks, handler, record,
                    duration, timer, clock, exit_status, reached, records,
                    sql, calls, log_format, values, text, pattern >>

NextPattern ==
    \/ build_pattern_step
    \/ match_step

SpecPattern == InitPattern /\ [][NextPattern]_vars

\* ------------------------------------- NginxTop.run: the log and its format

\* The access logs and the log_format the nginx config files of the model
\* declare.
ACCESS_LOG == "/var/log/nginx/access.log"
HLS_LOG == "/var/log/nginx/hls.log"
Paths == { ACCESS_LOG, HLS_LOG }

\* log_format main '$remote_addr $request';
LOG_FORMAT_MAIN == << Var("remote_addr"), Lit(" "), Var("request") >>

\* A format given as a string, and one given by name.
FormatString(tokens) == [name |-> "", tokens |-> tokens]
FormatName(name) == [name |-> name, tokens |-> << >>]

\* What get_access_logs and get_log_formats find in a config file: the
\* access_log directives as path -> format name, the log_format
\* directives as name -> format string.
ConfigFile(logs, formats) ==
    [st |-> "file", access_logs |-> logs, log_formats |-> formats]

\* No file; no access_log directive; one log of format combined; one log
\* of a declared format; one log of a format that is not declared; two
\* logs.
ConfigFiles ==
    { NoConfig,
      ConfigFile(<< >>, ("main" :> LOG_FORMAT_MAIN)),
      ConfigFile((ACCESS_LOG :> "combined"), << >>),
      ConfigFile((ACCESS_LOG :> "main"), ("main" :> LOG_FORMAT_MAIN)),
      ConfigFile((ACCESS_LOG :> "main"), << >>),
      ConfigFile((ACCESS_LOG :> "main") @@ (HLS_LOG :> "combined"),
                 ("main" :> LOG_FORMAT_MAIN)) }

\* The outcomes of a resolution: error_exit, or a path and a format.
ErrorExit == [st |-> "exit", path |-> None, format |-> NoFormat]
Resolved(path, fmt) == [st |-> "ok", path |-> path, format |-> fmt]

\* detect_log_config, lines 141-169, for one access log of the config.
format_of(conf, log_path, only) ==
    LET format_name == conf.access_logs[log_path]
    IN  IF only /\ format_name = "combined"
        THEN Resolved(log_path, FormatString(LOG_FORMAT_COMBINED_STR))
        ELSE IF format_name \notin DOMAIN conf.log_formats
        THEN ErrorExit
        ELSE Resolved(log_path, FormatString(conf.log_formats[format_name]))

\* detect_log_config: the outcomes it can have; with several access logs
\* the user chooses one (choose_one).
detect_log_config(conf) ==
    IF conf.st = "missing" \/ DOMAIN conf.access_logs = {}
    THEN { ErrorExit }
    ELSE { format_of(conf, log_path,
                     Cardinality(DOMAIN conf.access_logs) = 1) :
              log_path \in DOMAIN conf.access_logs }

\* NginxHttpInfo.get_access_log, lines 96-101: the path and the format
\* before the path is looked up.
resolve(args, tty, conf) ==
    IF args.access_log # None
    THEN { Resolved(args.access_log, args.log_format) }
    ELSE IF ~tty
    THEN { Resolved("stdin", args.log_format) }
    ELSE detect_log_config(conf)

\* The command lines and the surroundings of a run.  The values of a line
\* are the same text for every placeholder.
InitDetect ==
    /\ NoOptions
    /\ NoSQL
    /\ NoKeying
    /\ NoEnrich
    /\ argv \in [ access_log : { None, ACCESS_LOG },
                  log_format : { FormatName("combined"),
                                 FormatString(LOG_FORMAT_MAIN) },
                  info : BOOLEAN ]
    /\ isatty \in BOOLEAN
    /\ nginx_conf \in ConfigFiles
    /\ existing \in SUBSET Paths
    /\ access_log = None
    /\ access_log_format = NoFormat
    /\ no_follow = TRUE
    /\ format = VarsOf(Expand(argv.log_format))
    /\ samples_mode = FALSE
    /\ logging_samples = 0
    /\ file = << >>
    /\ pos = 0
    /\ pc = "run"
    /\ line = NoLine
    /\ record = NoRecord
    /\ duration = 0
    /\ streams = << >>
    /\ begin = 0
    /\ timer = FALSE
    /\ clock = Epoch
    /\ screen = Blank
    /\ stdout = Blank
    /\ printed = 0
    /\ exit_status = "running"
    /\ yielded = << >>
    /\ reached = << >>
    /\ committed = << << >> >>
    /\ seen = << >>
    /\ renders = 0
    /\ tail_start = 0
    /\ records = << >>
    /\ log_format = FormatString(<< >>)
    /\ \E v \in { << "x" >>, << "y" >> } :
          values = [ n \in VarsOf(LOG_FORMAT_COMBINED_STR) |-> v ]
    /\ text = << >>
    /\ pattern = NoPattern
    /\ groupdict = NoMatch

\* NginxTop.run, line 249: the first call of get_access_log.  The line the
\* run will read is one nginx wrote to that log, in the format the
\* resolution gave.
get_access_log ==
    /\ pc = "run"
    /\ access_log = None
    /\ \E out \in resolve(argv, isatty, nginx_conf) :
          IF out.st = "exit"
          THEN /\ pc' = "exit"
               /\ exit_status' = "1"
               /\ UNCHANGED << access_log, access_log_format, text >>
          ELSE /\ access_log' = out.path
               /\ IF out.path # "stdin" /\ out.path \notin existing
                  THEN /\ pc' = "exit"
                       /\ exit_status' = "1"
                       /\ UNCHANGED << access_log_format, text >>
                  ELSE /\ pc' = "resolved"
                       /\ access_log_format' = out.format
                       /\ text' = Written(Expand(out.format), values)
                       /\ UNCHANGED exit_status
    /\ UNCHANGED << arguments, source, store, sinks, handler, record,
                    duration, timer, clock, reached, records, sql, keying,
                    enrich, argv, isatty, nginx_conf, existing, log_format,
                    values, pattern, groupdict >>

\* NginxTop.run, lines 250-256: with the command info the path and the
\* format are printed and run returns.
run_info ==
    /\ pc = "resolved"
    /\ argv.info
    /\ pc' = "returned"
    /\ UNCHANGED << arguments, source, store, sinks, handler, record,
                    duration, timer, clock, exit_status, reached, library >>

\* NginxTop.run, lines 258-260, up to NginxHttpInfo.parse_info, line 157:
\* access_log is set, so get_access_log is not called again, and the
\* pattern is built from arguments['--log-format'].
run_parse_info ==
    /\ pc = "resolved"
    /\ ~argv.info
    /\ log_format' = argv.log_format
    /\ pattern' = build_pattern(log_format')
    /\ IF pattern'.st = "error"
       THEN pc' = "crashed" /\ exit_status' = "error"
       ELSE pc' = "match" /\ UNCHANGED exit_status
    /\ UNCHANGED << arguments, source, store, sinks, handler, record,
                    duration, timer, clock, reached, records, sql, calls,
                    values, text, groupdict >>

NextDetect ==
    \/ get_access_log
    \/ run_info
    \/ run_parse_info
    \/ match_step

SpecDetect == InitDetect /\ [][NextDetect]_vars

\* ------------------------------------------- SQLProcessor, called directly

\* The records a caller hands to SQLProcessor.process: what parse_log makes
\* of the lines of the format combined.
SQLRecords ==
    { parse_log(l).item : l \in GoodLines(LOG_FORMAT_COMBINED, Epoch) }

\* '%.2f' % (count / duration) for a duration that is not zero: the
\* quotient in hundredths, rounded to the nearest.
Hundredths(count, d) == (200 * count + d) \div (2 * d)

\* DEFAULT_QUERIES, 'Summary:': an aggregate without GROUP BY is one row,
\* also over an empty table.
SummaryQuery(rows) == [count |-> Len(rows)]

\* DEFAULT_QUERIES, 'Detailed:': GROUP BY --group-by (request_path) HAVING
\* --having; one row for each group the having clause keeps.
DetailedQuery(rows, hv) ==
    LET groups == { rows[i]["request_path"] : i \in DOMAIN rows }
    IN  [ g \in { x \in groups : hv # "0" } |->
            Cardinality({ i \in DOMAIN rows : rows[i]["request_path"] = g }) ]

\* SQLProcessor.report: '' before process was called; else the status line
\* with count / duration, which raises at a duration of zero, and the
\* result of each query.
SQLProcessor_report(b, rows, now, hv) ==
    IF b = 0
    THEN [st |-> "empty"]
    ELSE IF now - b = 0
         THEN [st |-> "ZeroDivisionError"]
         ELSE [ st |-> "report",
                duration |-> now - b,
                count |-> Len(rows),
                rate |-> Hundredths(Len(rows), now - b),
                summary |-> SummaryQuery(rows),
                detailed |-> DetailedQuery(rows, hv) ]

InitSQL ==
    /\ pre_filter = None
    /\ filter_exp = None
    /\ having \in {"1", "0"}
    /\ Idle("sql")
    /\ NoSQL
    /\ NoCalls
    /\ records = << >>
    /\ log_format = [name |-> "", tokens |-> << >>]
    /\ values = << >>
    /\ text = << >>
    /\ pattern = NoPattern
    /\ groupdict = NoMatch

\* SQLProcessor.process: begin is the time of the call; every record is
\* inserted.
SQLProcessor_process ==
    /\ pc = "sql"
    /\ \E rs \in SeqsOf(SQLRecords, MaxLines - Len(sql_log)) :
          /\ records' = rs
          /\ sql_log' = sql_log \o rs
    /\ sql_begin' = clock
    /\ UNCHANGED << arguments, source, store, sinks, handler, pc, record,
                    duration, timer, clock, exit_status, reached, compiler,
                    calls, sql_output >>

\* A caller calls report; an exception raised in it is the caller's, and
\* ends these runs.
call_report ==
    /\ pc = "sql"
    /\ sql_output' = SQLProcessor_report(sql_begin, sql_log, clock, having)
    /\ pc' = IF sql_output'.st = "ZeroDivisionError" THEN "crashed" ELSE pc
    /\ UNCHANGED << arguments, source, store, sinks, handler, record,
                    duration, timer, clock, exit_status, reached, records,
                    compiler, calls, sql_begin, sql_log >>

NextSQL ==
    \/ SQLProcessor_process
    \/ call_report
    \/ Tick

SpecSQL == InitSQL /\ [][NextSQL]_vars

\* ------------------------------------- the stream key, computed directly

\* The longest stream name of the model, in characters.
MaxName == 2

\* REGEX_GET_STREAM and REGEX_GET_STREAM_TS.  A run of characters that are
\* neither special in a regular expression nor part of a placeholder is one
\* character of the model.
REGEX_GET_STREAM ==
    << Lit("GET /live/"), Var("stream"), Lit("."), Lit("m3u8 HTTP/1"),
       Lit("."), Lit("1") >>

REGEX_GET_STREAM_TS ==
    << Lit("GET /live/"), Var("stream"), Lit("-"), Var("frag"), Lit("."),
       Lit("ts HTTP/1"), Lit("."), Lit("1") >>

\* DictProcessor.__init__: self.patterns.
patterns ==
    << re_compile(Groups(Escape(REGEX_GET_STREAM))),
       re_compile(Groups(Escape(REGEX_GET_STREAM_TS))) >>

\* Mutant of stream_of: the stream stays 'none' when no pattern matches.
stream_of_none(request) ==
    LET m1 == pattern_match(patterns[1], request)
        m2 == pattern_match(patterns[2], request)
    IN  IF m1.st = "match" THEN m1.groups["stream"]
        ELSE IF m2.st = "match" THEN m2.groups["stream"]
        ELSE << "none" >>

\* DictProcessor.process, lines 128-138: the group 'stream' of the first
\* pattern that matches the request, else the request.
stream_of(request) ==
    LET m1 == pattern_match(patterns[1], request)
        m2 == pattern_match(patterns[2], request)
    IN  IF m1.st = "match" THEN m1.groups["stream"]
        ELSE IF m2.st = "match" THEN m2.groups["stream"]
        ELSE request

\* The requests of the model: manifest and segment requests of the stream
\* names of up to MaxName characters, the same with more text after them or
\* with another character where the URL has a dot, requests of both shapes
\* and requests of neither.
NameChars == { "a", "-", "." }
StreamNames == SeqsOf(NameChars, MaxName)
Frags == { << >>, << "1" >> }

NotDot(tokens) ==
    [ i \in 1..Len(tokens) |->
        IF tokens[i].kind = "lit" /\ tokens[i].c = "."
        THEN Lit("x") ELSE tokens[i] ]

StreamRequests ==
    LET manifest == { Written(REGEX_GET_STREAM, [stream |-> n]) :
                        n \in StreamNames }
        segment == { Written(REGEX_GET_STREAM_TS, [stream |-> n, frag |-> f]) :
                        n \in StreamNames, f \in Frags }
        nodot == { Written(NotDot(REGEX_GET_STREAM), [stream |-> n]) :
                        n \in StreamNames }
    IN  manifest \cup segment \cup nodot
          \cup { r \o << "x" >> : r \in manifest }
          \cup { r \o << ".", "m3u8 HTTP/1", ".", "1" >> : r \in segment }
          \cup { << >>, << "GET /index.html HTTP/1", ".", "1" >>,
                 << "GET /live/" >>, << "GET /live/", "a" >> }

InitStream ==
    /\ NoOptions
    /\ Idle("stream")
    /\ NoSQL
    /\ records = << >>
    /\ log_format = [name |-> "", tokens |-> << >>]
    /\ values = << >>
    /\ text = << >>
    /\ pattern = NoPattern
    /\ groupdict = NoMatch
    /\ request_line \in StreamRequests
    /\ stream_name = << >>
    /\ NoEnrich
    /\ NoDetect

\* DictProcessor.process, lines 128-138, for one record.
stream_step ==
    /\ pc = "stream"
    /\ stream_name' = stream_of(request_line)
    /\ pc' = "keyed"
    /\ UNCHANGED << arguments, source, store, sinks, handler, record,
                    duration, timer, clock, exit_status, reached, records,
                    compiler, sql, enrich, detect, request_line >>

NextStream == stream_step

SpecStream == InitStream /\ [][NextStream]_vars

\* ------------------------------------------- parse_log, called directly

\* The fields of the lines parse_log is given and the texts each may
\* carry; a log format has any of the fields.
ParseFields == { "status", "body_bytes_sent", "bytes_sent", "request" }

TextsOf(field) ==
    CASE field = "status"          -> { "200", "404", "-", "abc" }
      [] field = "body_bytes_sent" -> { "1", "-" }
      [] field = "bytes_sent"      -> { "2", "-" }
      [] field = "request"         -> Requests

RawRecords ==
    UNION { { r \in [ S -> UNION { TextsOf(f) : f \in ParseFields } ] :
                \A f \in S : r[f] \in TextsOf(f) } :
            S \in SUBSET ParseFields }

InitParse ==
    /\ NoOptions
    /\ Idle("parse_log")
    /\ NoSQL
    /\ NoKeying
    /\ NoDetect
    /\ records = << >>
    /\ log_format = [name |-> "", tokens |-> << >>]
    /\ values = << >>
    /\ text = << >>
    /\ pattern = NoPattern
    /\ groupdict = NoMatch
    /\ raw_record \in RawRecords
    /\ typed_record = Dropped

\* NginxHttpInfo.parse_log on one matching line, pulled to the end of the
\* chain; an exception raised in the chain is the caller's.
parse_log_call ==
    /\ pc = "parse_log"
    /\ typed_record' = parse_log([matches |-> TRUE, vals |-> raw_record])
    /\ pc' = IF typed_record'.st \in { "item", "dropped" }
             THEN "parsed" ELSE "crashed"
    /\ UNCHANGED << arguments, source, store, sinks, handler, record,
                    duration, timer, clock, exit_status, reached, records,
                    compiler, sql, keying, detect, raw_record >>

NextParse == parse_log_call

SpecParse == InitParse /\ [][NextParse]_vars

\* ----------------------------------------------------------------- claims

InPlace == { "pi_start_ts", "pi_bytes", "pi_out_bw" }

\* C1 (as claimed): every store a timer-driven print_report reads is the
\* store after some prefix of the processed records, never the store in the
\* middle of one record's update.
C1_RenderReadsWholeRecords ==
    renders > 0 => \E k \in 1..Len(committed) : committed[k] = seen

\* C2 (as claimed): with --no-follow no timer is installed and no timer
\* render runs; at most one report is printed, only once every line of the
\* file has been drained, and the run ends having printed exactly one.
C2_OneShotDrainsThenReportsOnce ==
    no_follow =>
        /\ ~timer
        /\ renders = 0
        /\ printed <= 1
        /\ printed = 1 => pos = Len(file) /\ Len(yielded) = Len(file)
        /\ ~Running => printed = 1 /\ exit_status = "0"

\* C3: once follow has sought to the end of the file, the lines it has
\* yielded are exactly the lines tail_start+1 .. pos of the file, each once
\* and in file order: no line that was in the file at the seek, no line
\* twice, no rewinding.
C3_FollowYieldsAppendedOnce ==
    (~no_follow /\ pc \notin { "run", "parse_info", "seek" }) =>
        /\ tail_start <= pos
        /\ pos <= Len(file)
        /\ Len(yielded) = pos - tail_start
        /\ \A i \in 1..Len(yielded) : yielded[i] = tail_start + i

\* C3 witness: the file held a line at the seek and follow has yielded a
\* line appended after it.
C3_Witness ==
    ~no_follow /\ tail_start >= 1 /\ Len(yielded) >= 1

\* ------------------------------------------------------ C4: append, report

\* The report shown last: printed in --samples mode, on the screen otherwise.
Shown == IF samples_mode THEN stdout ELSE screen

\* A line that matches, has a numeric status and carries both the request
\* and the client address.
WellFormed(l) ==
    /\ l.matches
    /\ { "request", "remote_addr", "status" } \subseteq DOMAIN l.vals
    /\ l.vals["status"] \in DOMAIN IntOf

\* The report lists the line's client under the line's stream.
Reflects(out, l) ==
    /\ StreamKey(l.vals["request"]) \in DOMAIN out.detail
    /\ l.vals["remote_addr"] \in
           DOMAIN out.detail[StreamKey(l.vals["request"])].clients

\* The file indices of the lines follow was started before.
AppendedAfterTail ==
    IF ~no_follow /\ pc \notin { "run", "parse_info", "seek" }
    THEN (tail_start + 1)..Len(file) ELSE {}

\* The file indices whose record DictProcessor.process has wholly applied.
Applied ==
    { reached[i] :
        i \in 1..(Len(reached) - (IF pc \in InPlace THEN 1 ELSE 0)) }

C5_NoDataWaitsAndRetries ==
    [][ /\ (~no_follow /\ pc = "readline" /\ pos >= Len(file)
              /\ pc' # pc /\ renders' = renders) => pc' = "sleep"
        /\ (pc = "sleep" /\ pc' # pc /\ renders' = renders)
              => pc' = "readline"
        /\ (~no_follow /\ pc' = "report" /\ pc # "report")
              => pc = "process" ]_vars

\* C5 witness: follow waits at the end of the file it has read a line of.
C5_Witness ==
    ~no_follow /\ pc = "sleep" /\ Len(yielded) >= 1 /\ pos = Len(file)

\* ---------------------------------------------- C6: one render per firing

\* C6: every run of the handler renders exactly once the report of the store
\* as it is then: printed once in --samples mode, put on the screen otherwise.
C6_EachFiringRendersOnce ==
    [][ renders' # renders =>
          /\ renders' = renders + 1
          /\ \E order \in Orders(DOMAIN streams) :
                IF samples_mode
                THEN /\ stdout' = report(streams, clock, order)
                     /\ printed' = printed + 1
                     /\ screen' = screen
                ELSE /\ screen' = report(streams, clock, order)
                     /\ printed' = printed
                     /\ stdout' = stdout ]_vars

\* C6 witness: the timer fired twice with no record processed at all, and
\* both firings printed.
C6_Witness ==
    samples_mode /\ renders = 2 /\ reached = << >> /\ printed = 2

\* ------------------------------------------------ C7: renders never go back

\* Store A is contained in store B: its streams, their clients, their bytes.
Leq(A, B) ==
    /\ DOMAIN A \subseteq DOMAIN B
    /\ \A k \in DOMAIN A :
          /\ DOMAIN A[k].clients \subseteq DOMAIN B[k].clients
          /\ A[k].out_bytes <= B[k].out_bytes

\* Every client of store A comes from a line of the file with an index in I.
FromLines(A, I) ==
    \A k \in DOMAIN A : \A c \in DOMAIN A[k].clients :
        \E i \in I :
            /\ WellFormed(file[i])
            /\ StreamKey(file[i].vals["request"]) = k
            /\ file[i].vals["remote_addr"] = c

\* C7: a render reads the store as it is when the handler runs: it
\* contains every record wholly applied by then and whatever the render
\* before it read, and nothing of a line that has not reached process.
C7_RendersNeverGoBack ==
    [][ renders' # renders =>
          /\ seen' = streams
          /\ Leq(committed[Len(committed)], seen')
          /\ Leq(seen, seen')
          /\ FromLines(seen', { reached[i] : i \in 1..Len(reached) }) ]_vars

\* C7 witness: two renders, the later one of a store that holds records.
C7_Witness ==
    renders = 2 /\ DOMAIN seen # {} /\ Len(committed) >= 2

\* ------------------------------------------------------ C8: order is kept

RECURSIVE IsSubseq(_, _)
IsSubseq(a, b) ==
    IF a = << >> THEN TRUE
    ELSE IF b = << >> THEN FALSE
    ELSE IF Head(a) = Head(b) THEN IsSubseq(Tail(a), Tail(b))
    ELSE IsSubseq(a, Tail(b))

\* C8: the lines whose records have reached DictProcessor.process are a
\* subsequence of the lines yielded, and they reach it in the order of the
\* lines in the file.
C8_RecordsKeepLineOrder ==
    /\ IsSubseq(reached, yielded)
    /\ \A i, j \in 1..Len(reached) : i < j => reached[i] < reached[j]

\* C8 witness: two records have reached the store.
C8_Witness ==
    Len(reached) >= 2 /\ Len(committed) >= 3

\* ------------------------------------------------------ C9: groups by key

\* The records wholly applied, as the lines they come from.
AppliedLines == { file[i] : i \in Applied }
KeysApplied == { StreamKey(l.vals["request"]) : l \in AppliedLines }
ClientsApplied(k) ==
    { l.vals["remote_addr"] :
        l \in { m \in AppliedLines : StreamKey(m.vals["request"]) = k } }

\* The records C9 speaks of: N >= 1 records, each with request and client.
C9_Case ==
    /\ "request" \in format
    /\ pc \notin InPlace
    /\ Len(reached) >= 1

\* The only count DictProcessor keeps for a group: its clients.
CountOf(k) == Cardinality(DOMAIN streams[k].clients)

BadStatus(l) ==
    /\ l.matches
    /\ "status" \in DOMAIN l.vals
    /\ l.vals["status"] \notin { "", "-" }
    /\ l.vals["status"] \notin DOMAIN IntOf

C11_NoMatchSkipped ==
    /\ [](\A i \in 1..Len(reached) : file[reached[i]].matches)
    /\ [][ (pc = "parse_log" /\ ~line.matches /\ line' # line) =>
              /\ pc' = "readline"
              /\ UNCHANGED << streams, committed, reached, exit_status >> ]_vars

\* C11 witness: a line the pattern does not match was yielded and a later
\* line was applied to the store.
C11_Witness ==
    \E i \in 1..Len(yielded) :
        /\ ~file[yielded[i]].matches
        /\ \E j \in Applied : j > yielded[i] /\ Len(committed) >= 2

\* ------------------------------------------------- C12: filter errors

\* The exceptions the expressions of the model raise.
FilterErrors == { "IndexError", "AttributeError" }

\* Evaluating the pre-filter on the line, or the filter on its record,
\* raises.
FilterRaises(l) ==
    \/ pre_filter # None /\ eval_pre_filter(l) \in FilterErrors
    \/ /\ pre_filter = None \/ eval_pre_filter(l) = "True"
       /\ filter_exp # None
       /\ parse_log(l).st = "item"
       /\ eval_filter(parse_log(l).item) \in FilterErrors

\* C12 (as claimed): a line or record on which the pre-filter or the filter
\* raises is excluded: the store and the exit status stay as they are, the
\* line source is read again, and no run ends with the error.
C12_FilterErrorExcludes ==
    /\ [](exit_status \notin FilterErrors)
    /\ [][ (pc = "parse_log" /\ FilterRaises(line) /\ line' # line) =>
              /\ pc' = "readline"
              /\ UNCHANGED << streams, committed, reached, exit_status >> ]_vars

\* ---------------------------------------- C13: record without fields

\* The record has the field process groups by.
HasRequest(r) == "request" \in DOMAIN r

\* The store after one record that has the field.
StoreAfter(stream_map, r, now) ==
    LET stream == StreamKey(r["request"])
        known == IF stream \in DOMAIN stream_map
                 THEN stream_map[stream] ELSE StreamInfo
    IN  (stream :> Stream_parse_info(known, r, now)) @@ stream_map

\* The store after a sequence of records that all have the field.
RECURSIVE StoreAfterAll(_, _, _)
StoreAfterAll(stream_map, recs, now) ==
    IF recs = << >> THEN stream_map
    ELSE StoreAfterAll(StoreAfter(stream_map, Head(recs), now),
                       Tail(recs), now)

\* C13 (as claimed): when process has returned, no error was raised and the
\* store is what the records that have 'request' make of it, in their
\* order: a record without it (or without any field) changed nothing and
\* the records after it were aggregated.
C13_NoFieldRecordIsNoOp ==
    (pc = "report" /\ Len(records) >= 1) =>
        /\ exit_status = "running"
        /\ streams = StoreAfterAll(<< >>, SelectSeq(records, HasRequest),
                                   clock)

\* ------------------------------------------------- C14: hls_in is empty

\* C14 (as claimed): build_pattern of hls_in fails with InvalidFormat: it
\* returns no matcher and no line is matched against one.
C14_HlsInIsInvalidFormat ==
    (log_format.name = "hls_in" /\ pc # "build_pattern") =>
        /\ pattern.st # "compiled"
        /\ exit_status = "InvalidFormat"
        /\ groupdict.st # "match"

\* ------------------------------------------------ C15: format round trip

\* No two placeholders of the format string stand side by side.
Delimited(tokens) ==
    \A i \in 1..(Len(tokens) - 1) :
        ~(tokens[i].kind = "var" /\ tokens[i + 1].kind = "var")

\* C15 (as claimed): for a format string of literal text and placeholders
\* with literal text between them, the match of the written line gives back
\* the value of every placeholder.
C15_PatternRoundTrip ==
    (log_format.name = "" /\ Delimited(log_format.tokens)) =>
        /\ pc # "crashed"
        /\ pc = "matched" =>
              /\ groupdict.st = "match"
              /\ groupdict.groups = values

\* ------------------------------------------------- C16: --samples N

\* C16 (as claimed): in samples mode every report goes to standard output
\* and is a render of the handler, the renders done and the renders left
\* always add up to N, and the run ends, with status 0, exactly when none
\* is left.
C16_SamplesExitAfterN ==
    /\ [](samples_mode =>
            /\ screen = Blank
            /\ printed = renders
            /\ exit_status = "0" => logging_samples = 0
            /\ logging_samples = 0 => ~Running /\ exit_status = "0")
    /\ [][ samples_mode =>
              renders' + logging_samples' = renders + logging_samples ]_vars

\* ---------------------------------------------------- C17: interrupt

\* C17: while the run goes on an interrupt can always be taken; the step
\* that takes it ends the run with status 0 and leaves the store and the
\* lines read as they are; nothing happens after it.
C17_InterruptExitsZero ==
    /\ [](Running => ENABLED interrupt)
    /\ [](pc = "interrupted" => exit_status = "0")
    /\ [][ pc' = "interrupted" =>
              UNCHANGED << streams, committed, reached, yielded, pos >> ]_vars
    /\ [][ pc # "interrupted" ]_vars

\* C17 witness: the run was interrupted after a render, while it was
\* applying a record.
C17_Witness ==
    pc = "interrupted" /\ record # NoRecord /\ renders >= 1

\* ------------------------------------------------- C18: throughput figure

\* C18: a call of SQLProcessor.report after process returns a report and
\* raises nothing; its throughput figure is count / elapsed seconds, and 0
\* when no time has elapsed.
C18_Throughput ==
    /\ sql_output.st \in {"None", "empty", "report"}
    /\ sql_output.st = "report" =>
          /\ sql_output.count <= Len(sql_log)
          /\ sql_output.duration = 0 => sql_output.rate = 0
          /\ sql_output.duration > 0 =>
                /\ sql_output.rate * 2 * sql_output.duration
                      <= 200 * sql_output.count + sql_output.duration
                /\ (sql_output.rate + 1) * 2 * sql_output.duration
                      > 200 * sql_output.count + sql_output.duration

\* ------------------------------------------- C19: report of an empty store

\* C19: a report made of a store that has processed no record raises
\* nothing and is neutral: every total of its summary is zero and it has no
\* detail rows.  Both callers of report are covered, the timer's render and
\* the report printed once process has returned.
C19_EmptyReportNeutral ==
    /\ [][ (renders' = renders + 1 /\ seen' = << >>) =>
              (IF samples_mode THEN stdout' ELSE screen') = Blank ]_vars
    /\ [][ (pc = "report" /\ pc' = "done" /\ streams = << >>) =>
              stdout' = Blank ]_vars

\* ------------------------------------------------- C20: --having excludes

\* C20: with a having clause that excludes every group (--having 0) every
\* report shown has its summary row and no detail rows, whatever records
\* were processed.
C20_HavingExcludesAll ==
    having = "0" =>
        /\ DOMAIN screen.detail = {}
        /\ DOMAIN stdout.detail = {}

\* ------------------------------------------------ C21: join timestamp

\* The join timestamp by the claimed priority: time_local, then the
\* relative time, then now.
JoinTsClaimed(r, now) ==
    IF "time_local" \in DOMAIN r THEN r["time_local"]
    ELSE IF "time" \in DOMAIN r THEN now - to_int(r["time"]) * 1000
    ELSE now

\* The clients of stream k in a store.
ClientsOf(stream_map, k) ==
    IF k \in DOMAIN stream_map THEN DOMAIN stream_map[k].clients ELSE {}

\* C21 (as claimed): the record that makes a client gives it its join
\* timestamp by the priority time_local, time, now; a record with both
\* time_local and time uses time_local.
C21_JoinTsPriority ==
    [][ pc = "process" =>
            \A k \in DOMAIN streams' :
                \A c \in ClientsOf(streams', k) \ ClientsOf(streams, k) :
                    streams'[k].clients[c].join_ts
                        = JoinTsClaimed(record, clock) ]_vars

\* ---------------------------------------------------- C22: stream key

\* The places of a request where the text after the stream name of a
\* manifest request starts, and where the dash before the fragment of a
\* segment request stands.
ManifestEnds(r) ==
    { j \in 2..Len(r) :
        /\ r[1] = "GET /live/"
        /\ j + 3 <= Len(r)
        /\ SubSeq(r, j, j + 3) = << ".", "m3u8 HTTP/1", ".", "1" >> }

SegmentDashes(r) ==
    { j \in 2..Len(r) :
        /\ r[1] = "GET /live/"
        /\ r[j] = "-"
        /\ \E k \in (j + 1)..Len(r) :
              /\ k + 3 <= Len(r)
              /\ SubSeq(r, k, k + 3) = << ".", "ts HTTP/1", ".", "1" >> }

Last(S) == CHOOSE j \in S : \A i \in S : i <= j

\* C22: the stream key is the stream name of the request when it is a
\* manifest request or a segment request, and the request itself, whole,
\* when it is neither.
C22_StreamKey ==
    pc = "keyed" =>
        stream_name =
            IF ManifestEnds(request_line) # {}
            THEN SubSeq(request_line, 2, Last(ManifestEnds(request_line)) - 1)
            ELSE IF SegmentDashes(request_line) # {}
            THEN SubSeq(request_line, 2,
                        Last(SegmentDashes(request_line)) - 1)
            ELSE request_line

\* C22 witness: a request of neither shape (a dot of the URL is another
\* character) is filed under the whole request.
C22_Witness ==
    /\ pc = "keyed"
    /\ Len(request_line) > 1
    /\ ManifestEnds(request_line) = {}
    /\ SegmentDashes(request_line) = {}
    /\ stream_name = request_line

\* ------------------------------------------- C23: begin is the first call

\* C23 (as claimed): once a call of process has set the start timestamp,
\* no later call changes it.
C23_BeginIsFirstCall ==
    [][ /\ sql_begin # 0 => sql_begin' = sql_begin
        /\ begin # 0 => begin' = begin ]_vars

\* ---------------------------------------------------- C24: status_type

\* parse_log was called and has yielded a typed record.
Typed == pc = "parsed" /\ typed_record.st = "item"

\* C24 (as claimed): the typed record of a raw record with a status has
\* status_type = status // 100, and the typed record of a raw record
\* without a status has no status_type derived from a status.
C24_StatusTypeOnlyWithStatus ==
    Typed =>
        IF "status" \in DOMAIN raw_record
        THEN typed_record.item["status_type"]
                = to_int(raw_record["status"]) \div 100
        ELSE "status_type" \notin DOMAIN typed_record.item

\* -------------------------------------------------------- C25: bytes_sent

\* The bytes_sent the claim gives a raw record.
BytesSentClaimed(r) ==
    IF "bytes_sent" \in DOMAIN r THEN to_int(r["bytes_sent"])
    ELSE IF "body_bytes_sent" \in DOMAIN r THEN to_int(r["body_bytes_sent"])
    ELSE 0

\* C25 (as claimed): every record enrichment does not drop for its status
\* is yielded, without an error, with bytes_sent the integer of its own
\* bytes_sent, else of its body_bytes_sent, and 0 when it has neither or
\* the text is '-'.
C25_BytesSentForEveryRecord ==
    (pc \in { "parsed", "crashed" } /\ typed_record.st # "dropped") =>
        /\ typed_record.st = "item"
        /\ typed_record.item["bytes_sent"] = BytesSentClaimed(raw_record)

\* ------------------------------------------------ C26: cumulative out_bytes

\* The bytes the claim counts for a record: its out_bytes, else its
\* sent-byte count.
BytesClaimed(r) ==
    IF "out_bytes" \in DOMAIN r THEN to_int(r["out_bytes"])
    ELSE IF "bytes_sent" \in DOMAIN r THEN r["bytes_sent"]
    ELSE 0

\* The records among the first n handed to process that are of stream k
\* and carry a remote_addr.
CountedFor(k, n) ==
    { i \in 1..n :
        /\ "request" \in DOMAIN records[i]
        /\ StreamKey(records[i]["request"]) = k
        /\ "remote_addr" \in DOMAIN records[i] }

\* C26 (as claimed): no record raises an error, and between two records
\* each stream's out_bytes is the sum of the bytes of its records so far.
C26_OutBytesIsSum ==
    /\ exit_status # "KeyError"
    /\ pc \in { "readline", "report" } =>
          \A k \in DOMAIN streams :
              streams[k].out_bytes =
                  SumOver(CountedFor(k, pos),
                          [ i \in CountedFor(k, pos) |->
                              BytesClaimed(records[i]) ])

\* ------------------------------------------- C27: bandwidth, no time elapsed

\* The bandwidth the claim gives a byte counter over a duration, before it
\* is scaled to kilobytes: the bytes for each second elapsed (the code
\* counts the duration in thousandths), and the raw byte count when none
\* has.
BandwidthClaimed(bytes, d) ==
    IF d = 0 \/ d < 0 THEN bytes ELSE (bytes \div d) * 1000

\* C27: when a record without an out_bw field has been applied to a stream,
\* the stream's bandwidth is the quotient of its byte counter by the
\* duration since the client joined, and the raw byte counter when that
\* duration is zero.  A new stream is filled in one step, a known one up to
\* its last line (pi_out_bw).
C27_ZeroDurationGivesBytes ==
    [][ /\ (pc = "pi_out_bw" /\ pc' = "readline"
              /\ "out_bw" \notin DOMAIN record) =>
              LET k == StreamKey(record["request"])
              IN  streams'[k].out_bw
                      = BandwidthClaimed(streams'[k].out_bytes, duration)
        /\ (pc = "process" /\ pc' = "readline"
              /\ "request" \in DOMAIN record
              /\ "remote_addr" \in DOMAIN record
              /\ "out_bw" \notin DOMAIN record
              /\ StreamKey(record["request"]) \notin DOMAIN streams) =>
              LET k == StreamKey(record["request"])
                  c == record["remote_addr"]
              IN  streams'[k].out_bw
                      = BandwidthClaimed(
                            streams'[k].out_bytes,
                            clock - streams'[k].clients[c].join_ts) ]_vars

\* C27 witness: a record was applied in the second its client joined, and
\* the stream's bandwidth is its byte counter, which is not zero.
C27_Witness ==
    /\ pc = "readline"
    /\ \E k \in DOMAIN streams :
          /\ streams[k].out_bytes > 0
          /\ streams[k].out_bw = streams[k].out_bytes
          /\ \E c \in DOMAIN streams[k].clients :
                streams[k].clients[c].join_ts = clock

\* C28: groups are never evicted.  Over every step the stream keys of the
\* store and the clients of each stream only grow, and a step that renders
\* a report leaves the whole store as it was.
C28_GroupsNeverEvicted ==
    [][ /\ \A k \in DOMAIN streams :
              /\ k \in DOMAIN streams'
              /\ DOMAIN streams[k].clients
                     \subseteq DOMAIN streams'[k].clients
        /\ renders' # renders => streams' = streams ]_vars

\* C28 witness: a report rendered a stream, and the same stream later holds
\* every client that report saw and one more.
C28_Witness ==
    /\ renders > 0
    /\ \E k \in DOMAIN seen :
          /\ k \in DOMAIN streams
          /\ DOMAIN seen[k].clients \subseteq DOMAIN streams[k].clients
          /\ DOMAIN seen[k].clients # DOMAIN streams[k].clients

\* ------------------------------------------- C30: start_ts and join_ts

\* The smallest join timestamp among the clients of a stream.
MinJoinTs(stream_info) ==
    CHOOSE t \in { stream_info.clients[c].join_ts :
                       c \in DOMAIN stream_info.clients } :
        \A c \in DOMAIN stream_info.clients :
            t <= stream_info.clients[c].join_ts

\* Between two records, every stream that has a client starts at the
\* smallest join timestamp of its clients.
StartIsMinJoin ==
    pc \notin InPlace \cup { "crashed" } =>
        \A k \in DOMAIN streams :
            DOMAIN streams[k].clients # {} =>
                streams[k].start_ts = MinJoinTs(streams[k])

\* No step changes the join timestamp of a client the store holds.
JoinTsKept ==
    \A k \in DOMAIN streams :
        \A c \in DOMAIN streams[k].clients :
            /\ k \in DOMAIN streams'
            /\ c \in DOMAIN streams'[k].clients
            /\ streams'[k].clients[c].join_ts = streams[k].clients[c].join_ts

\* C30 (as claimed): after any sequence of processed records every stream
\* with at least one client has start_ts equal to the least join_ts of its
\* clients, and a client's join_ts, once set, is never changed.
C30_StartIsMinJoin ==
    /\ []StartIsMinJoin
    /\ [][JoinTsKept]_vars

\* ------------------------------- C29: the pattern and the resolved format

\* C29 (as claimed): the pattern that matches the lines is compiled from
\* the log format get_access_log resolved for the chosen access log.
C29_PatternFromResolvedFormat ==
    (pc \in { "match", "matched" } /\ access_log # None) =>
        pattern = build_pattern(access_log_format)

\* ------------------------------------- C31: the elapsed time of the summary

\* The streams of a store that have a client.
WithClients(stream_map) ==
    { k \in DOMAIN stream_map : DOMAIN stream_map[k].clients # {} }

\* The earliest start_ts among the streams that have a client.
EarliestStart(stream_map) ==
    CHOOSE t \in { stream_map[k].start_ts : k \in WithClients(stream_map) } :
        \A k \in WithClients(stream_map) : t <= stream_map[k].start_ts

\* C31 (as claimed): the elapsed time in the summary of the report is
\* measured from the earliest start_ts among the streams that have
\* clients, in whatever order the streams are visited and whether or not
\* the store holds streams without clients.
C31_RunTimeFromEarliestStart ==
    (pc = "done" /\ WithClients(streams) # {}) =>
        stdout.run_time = (clock - EarliestStart(streams)) \div 1000

====
